---- MODULE Spec2Model ----
(***************************************************************************)
(* Model of the nimbus-encryption core: the error taxonomy (error.rs), the *)
(* base64 transport encoder (utils/encoding.rs), the secure random helpers *)
(* (utils/random.rs) and the cipher contract (crypto/crypto_trait.rs).     *)
(*                                                                         *)
(* Every function of the library is a free function without shared state,  *)
(* so the state of the model is the frame of the caller: the call that was *)
(* made, its inputs, and what it returned.  Follow-up actions feed the     *)
(* result of one call into the next one (decode what was encoded, decrypt  *)
(* what was encrypted).                                                    *)
(***************************************************************************)
EXTENDS Integers, Sequences, FiniteSets, TLC

VARIABLES
    op,         \* the last call made by the caller ("none" before any call)
    data,       \* &[u8] argument: bytes to encode / plaintext
    text,       \* &str argument: characters to decode
    encoder,    \* the Encoder implementation handed to encode_with / decode_with
    inner,      \* what the trait method called by the wrapper returned
    rng,        \* the SecureRandomSource handed to the random helpers
    byte_count, \* requested number of random bytes
    kind,       \* the NimbusError value being formatted
    key,        \* cipher key
    nonce,      \* cipher nonce
    aad,        \* additional associated data given to the cipher
    tampered,   \* what the caller changed after encrypt: "no", "ct" or "aad"
    ct,         \* ciphertext held by the caller
    out_len,    \* the output-length calculation the last encode call made
    ret         \* what the call returned

vars == <<op, data, text, encoder, inner, rng, byte_count, kind,
          key, nonce, aad, tampered, ct, out_len, ret>>

----------------------------------------------------------------------------
(* Bounds of the model.                                                    *)

\* width of usize in bits (the platform's pointer width, scaled down)
UsizeBits == 5
\* longest byte slice the caller hands to the encoder
MaxLen == 8
\* number of distinct byte values drawn for input bytes
NumByteVals == 2
\* number of distinct byte values and longest slice of the single-block inputs
NumWideByteVals == 8
MaxWideLen == 3
\* longest arbitrary string handed to the decoder
MaxTextLen == 4
\* largest byte count asked of secure_random_bytes directly
MaxCount == 4
\* number of distinct output streams an entropy source can produce
NumStreams == 2
\* longest plaintext and longest associated data handed to the cipher
MaxPlainLen == 2
MaxAadLen == 1

----------------------------------------------------------------------------
(* Result<T, E>                                                            *)

Ok(v) == [ok |-> TRUE, val |-> v]
Err(e) == [ok |-> FALSE, err |-> e]

\* the value before any call returned
NoResult == [ok |-> FALSE, err |-> "none"]

----------------------------------------------------------------------------
(* error.rs                                                                *)

\* NimbusError without its last kind
MutNimbusError ==
    { "CryptographicFailure", "AuthenticationFailed", "KeyOperationFailed",
      "InvalidInput", "InvalidLength", "RandomGenerationFailed", "SystemError" }

NimbusError ==
    { "CryptographicFailure", "AuthenticationFailed", "KeyOperationFailed",
      "InvalidInput", "InvalidLength", "RandomGenerationFailed",
      "SystemError", "WebAssemblyError" }

\* Display with the description of SystemError repeated for WebAssemblyError
MutDisplay(e) ==
    CASE e = "CryptographicFailure" -> "Cryptographic operation failed"
      [] e = "AuthenticationFailed" -> "Authentication verification failed"
      [] e = "KeyOperationFailed" -> "Key operation failed"
      [] e = "InvalidInput" -> "Invalid input provided"
      [] e = "InvalidLength" -> "Invalid data length"
      [] e = "RandomGenerationFailed" -> "Secure random generation failed"
      [] e = "SystemError" -> "System operation failed"
      [] e = "WebAssemblyError" -> "System operation failed"

\* impl fmt::Display for NimbusError
Display(e) ==
    CASE e = "CryptographicFailure" -> "Cryptographic operation failed"
      [] e = "AuthenticationFailed" -> "Authentication verification failed"
      [] e = "KeyOperationFailed" -> "Key operation failed"
      [] e = "InvalidInput" -> "Invalid input provided"
      [] e = "InvalidLength" -> "Invalid data length"
      [] e = "RandomGenerationFailed" -> "Secure random generation failed"
      [] e = "SystemError" -> "System operation failed"
      [] e = "WebAssemblyError" -> "WebAssembly operation failed"

----------------------------------------------------------------------------
(* Integer helpers                                                         *)

RECURSIVE Pow2(_)
Pow2(n) == IF n = 0 THEN 1 ELSE 2 * Pow2(n - 1)

USIZE_MAX == Pow2(UsizeBits) - 1

\* the byte values input slices are drawn from
ByteVals == { (i * 255) % 256 : i \in 0..(NumByteVals - 1) }

\* byte values with mixed bit patterns, for the inputs of one block
WideByteVals == { (i * 171) % 256 : i \in 0..(NumWideByteVals - 1) }

RECURSIVE SeqsUpTo(_, _)
SeqsUpTo(S, n) ==
    IF n = 0 THEN { <<>> }
    ELSE LET shorter == SeqsUpTo(S, n - 1)
         IN  shorter \cup { Append(s, x) : s \in { t \in shorter : Len(t) = n - 1 }, x \in S }

\* the byte slices the caller encodes: every slice of up to MaxLen bytes over
\* ByteVals and every slice of up to MaxWideLen bytes over WideByteVals
InputSlices == SeqsUpTo(ByteVals, MaxLen) \cup SeqsUpTo(WideByteVals, MaxWideLen)

----------------------------------------------------------------------------
(* utils/encoding.rs                                                       *)

\* BASE64_MAX_INPUT_SIZE as half of usize::MAX
MutBase64MaxInputSize == USIZE_MAX \div 2

BASE64_MAX_INPUT_SIZE == USIZE_MAX \div 4

\* the longest slice there can be: isize::MAX bytes
ISIZE_MAX == USIZE_MAX \div 2

\* the standard base64 alphabet, one character per 6-bit value
Alphabet ==
    << "A", "B", "C", "D", "E", "F", "G", "H", "I", "J", "K", "L", "M",
       "N", "O", "P", "Q", "R", "S", "T", "U", "V", "W", "X", "Y", "Z",
       "a", "b", "c", "d", "e", "f", "g", "h", "i", "j", "k", "l", "m",
       "n", "o", "p", "q", "r", "s", "t", "u", "v", "w", "x", "y", "z",
       "0", "1", "2", "3", "4", "5", "6", "7", "8", "9", "+", "/" >>

PAD == "="

Sextet(c) == IF \E i \in 1..64 : Alphabet[i] = c
             THEN (CHOOSE i \in 1..64 : Alphabet[i] = c) - 1
             ELSE -1

\* Base64::encode_string: 3 bytes -> 4 characters, the last block padded
RECURSIVE EncodeString(_)
EncodeString(b) ==
    IF Len(b) = 0 THEN <<>>
    ELSE IF Len(b) = 1 THEN
        << Alphabet[(b[1] \div 4) + 1], Alphabet[((b[1] % 4) * 16) + 1], PAD, PAD >>
    ELSE IF Len(b) = 2 THEN
        << Alphabet[(b[1] \div 4) + 1],
           Alphabet[((b[1] % 4) * 16 + (b[2] \div 16)) + 1],
           Alphabet[((b[2] % 16) * 4) + 1], PAD >>
    ELSE
        << Alphabet[(b[1] \div 4) + 1],
           Alphabet[((b[1] % 4) * 16 + (b[2] \div 16)) + 1],
           Alphabet[((b[2] % 16) * 4 + (b[3] \div 64)) + 1],
           Alphabet[(b[3] % 64) + 1] >>
        \o EncodeString(SubSeq(b, 4, Len(b)))

\* PaddingLen counting a single padding character only
MutPaddingLen(s) == IF Len(s) >= 1 /\ s[Len(s)] = PAD THEN 1 ELSE 0

\* number of trailing padding characters base64ct strips (at most two)
PaddingLen(s) ==
    IF Len(s) >= 2 /\ s[Len(s)] = PAD /\ s[Len(s) - 1] = PAD THEN 2
    ELSE IF Len(s) >= 1 /\ s[Len(s)] = PAD THEN 1
    ELSE 0

\* the bytes of the unpadded characters u, all of which are in the alphabet
RECURSIVE DecodeSextets(_)
DecodeSextets(u) ==
    IF Len(u) < 2 THEN <<>>
    ELSE IF Len(u) = 2 THEN
        << Sextet(u[1]) * 4 + (Sextet(u[2]) \div 16) >>
    ELSE IF Len(u) = 3 THEN
        << Sextet(u[1]) * 4 + (Sextet(u[2]) \div 16),
           (Sextet(u[2]) % 16) * 16 + (Sextet(u[3]) \div 4) >>
    ELSE
        << Sextet(u[1]) * 4 + (Sextet(u[2]) \div 16),
           (Sextet(u[2]) % 16) * 16 + (Sextet(u[3]) \div 4),
           (Sextet(u[3]) % 4) * 64 + Sextet(u[4]) >>
        \o DecodeSextets(SubSeq(u, 5, Len(u)))

\* DecodeVec as a lenient decoder: skips what is not in the alphabet and
\* decodes the rest
MutDecodeVec(s) == Ok(DecodeSextets(SelectSeq(s, LAMBDA c : Sextet(c) >= 0)))

\* Base64::decode_vec: the padded length is a multiple of four, everything
\* before the padding is in the alphabet, and the text is the canonical
\* encoding of the bytes it decodes to
DecodeVec(s) ==
    IF Len(s) % 4 # 0 THEN Err("InvalidEncoding")
    ELSE LET u == SubSeq(s, 1, Len(s) - PaddingLen(s))
         IN  IF \E i \in 1..Len(u) : Sextet(u[i]) < 0 THEN Err("InvalidEncoding")
             ELSE IF EncodeString(DecodeSextets(u)) # s THEN Err("InvalidEncoding")
             ELSE Ok(DecodeSextets(u))

\* the Encoder implementations: Base64 and the four MockEncoder configurations
Base64 == [name |-> "Base64", input_too_large |-> FALSE,
           decode_failure |-> FALSE, encode_failure |-> FALSE]

MockEncoder(tooLarge, decFail, encFail) ==
    [name |-> "MockEncoder", input_too_large |-> tooLarge,
     decode_failure |-> decFail, encode_failure |-> encFail]

Encoders ==
    { Base64, MockEncoder(FALSE, FALSE, FALSE), MockEncoder(TRUE, FALSE, FALSE),
      MockEncoder(FALSE, TRUE, FALSE), MockEncoder(FALSE, FALSE, TRUE) }

\* Encoder::max_input_size
max_input_size(e) == IF e.name = "Base64" THEN BASE64_MAX_INPUT_SIZE ELSE USIZE_MAX

\* <Base64 as Encoder>::encode
Base64_encode(e, d) ==
    IF Len(d) > max_input_size(e) THEN Err("InvalidLength")
    ELSE Ok(EncodeString(d))

\* no output length was calculated
NoLength == [ attempted |-> FALSE ]

\* The output length Base64::encode_string calculates for n input bytes:
\* the product n * 4 (checked), a third of it, rounded up to a whole block.
\* overflow tells whether a step exceeded usize::MAX.
encoded_len(n) ==
    LET product == n * 4
        third == (product \div 3) + 3
    IN  [ attempted |-> TRUE,
          product |-> product,
          overflow |-> (product > USIZE_MAX \/ third > USIZE_MAX),
          len |-> third - (third % 4) ]

\* the length calculation <Base64 as Encoder>::encode gets to
Base64_encode_len(e, d) ==
    IF Len(d) > max_input_size(e) THEN NoLength
    ELSE encoded_len(Len(d))

\* the length calculation encoder.encode(data) gets to; MockEncoder makes none
encode_len(e, d) == IF e.name = "Base64" THEN Base64_encode_len(e, d) ELSE NoLength

\* <Base64 as Encoder>::decode: every base64ct error becomes InvalidInput
Base64_decode(e, s) ==
    IF DecodeVec(s).ok THEN DecodeVec(s) ELSE Err("InvalidInput")

\* <MockEncoder as Encoder>::encode, returning String::from("test")
MockEncoder_encode(e, d) ==
    IF e.input_too_large THEN Err("InvalidLength")
    ELSE IF e.encode_failure THEN Err("InvalidInput")
    ELSE Ok(<< "t", "e", "s", "t" >>)

\* <MockEncoder as Encoder>::decode, returning b"test"
MockEncoder_decode(e, s) ==
    IF e.decode_failure THEN Err("InvalidInput")
    ELSE Ok(<< 116, 101, 115, 116 >>)

\* encoder.encode(data), dispatched on the implementation
encode(e, d) == IF e.name = "Base64" THEN Base64_encode(e, d) ELSE MockEncoder_encode(e, d)

\* encoder.decode(data), dispatched on the implementation
decode(e, s) == IF e.name = "Base64" THEN Base64_decode(e, s) ELSE MockEncoder_decode(e, s)

\* MapErrInvalidInput handing the encoder's own error on
MutMapErrInvalidInput(r) == r

\* map_err(|_| NimbusError::InvalidInput)
MapErrInvalidInput(r) == IF r.ok THEN r ELSE Err("InvalidInput")

encode_with(e, d) == MapErrInvalidInput(encode(e, d))

decode_with(e, s) == MapErrInvalidInput(decode(e, s))

encode_base64(d) == encode_with(Base64, d)

decode_base64(s) == decode_with(Base64, s)

----------------------------------------------------------------------------
(* utils/random.rs                                                         *)

NONCE_96_BIT_SIZE == 12
NONCE_192_BIT_SIZE == 24

\* values a source can yield from try_next_u64
U64Vals == { 0, 42, 65535 }

\* A SecureRandomSource at the moment it is called.  bytes_should_fail,
\* u64_should_fail and test_value are the fields of MockRandomSource; for
\* OsRng they stand for what the operating system does at that call.
\* stream = 0 leaves the buffer as it is (MockRandomSource), stream > 0
\* overwrites it.  calls counts the invocations made through &mut self.
RandomSources ==
    [ bytes_should_fail : BOOLEAN, u64_should_fail : BOOLEAN,
      test_value : U64Vals, stream : 0..NumStreams, calls : {0} ]

\* OsRng: a source that overwrites the whole buffer when it succeeds
OsRng == { r \in RandomSources : r.stream > 0 }

\* the i-th byte of output stream k
StreamByte(k, i) == (k * 89 + i * k * 37) % 256

\* SecureRandomSource::try_fill_bytes(&mut self, dest): the outcome, the
\* buffer afterwards and the source afterwards.  A failing source may have
\* written part of the buffer.
try_fill_bytes(r, dest) ==
    IF r.bytes_should_fail
    THEN [ res |-> Err("SourceError"),
           dest |-> [ i \in 1..Len(dest) |->
                        IF r.stream > 0 /\ 2 * i <= Len(dest)
                        THEN StreamByte(r.stream, i) ELSE dest[i] ],
           rng |-> [ r EXCEPT !.calls = @ + 1 ] ]
    ELSE [ res |-> Ok("unit"),
           dest |-> [ i \in 1..Len(dest) |->
                        IF r.stream > 0 THEN StreamByte(r.stream, i) ELSE dest[i] ],
           rng |-> [ r EXCEPT !.calls = @ + 1 ] ]

\* SecureRandomSource::try_next_u64(&mut self)
try_next_u64(r) ==
    IF r.u64_should_fail
    THEN [ res |-> Err("SourceError"), rng |-> [ r EXCEPT !.calls = @ + 1 ] ]
    ELSE [ res |-> Ok(r.test_value), rng |-> [ r EXCEPT !.calls = @ + 1 ] ]

\* vec![0u8; byte_count]
ZeroBuffer(n) == [ i \in 1..n |-> 0 ]

\* secure_random_bytes asking the source a second time after a failure
MutSecureRandomBytesRetry(r, n) ==
    LET first == try_fill_bytes(r, ZeroBuffer(n))
        second == try_fill_bytes(first.rng, ZeroBuffer(n))
    IN  IF first.res.ok
        THEN [ ret |-> Ok(first.dest), rng |-> first.rng ]
        ELSE IF second.res.ok
        THEN [ ret |-> Ok(second.dest), rng |-> second.rng ]
        ELSE [ ret |-> Err("RandomGenerationFailed"), rng |-> second.rng ]

\* secure_random_bytes handing the buffer back whatever the source reported
MutSecureRandomBytes(r, n) ==
    LET filled == try_fill_bytes(r, ZeroBuffer(n))
    IN  [ ret |-> Ok(filled.dest), rng |-> filled.rng ]

secure_random_bytes(r, n) ==
    LET filled == try_fill_bytes(r, ZeroBuffer(n))
    IN  IF filled.res.ok
        THEN [ ret |-> Ok(filled.dest), rng |-> filled.rng ]
        ELSE [ ret |-> Err("RandomGenerationFailed"), rng |-> filled.rng ]

secure_random_u64(r) ==
    LET drawn == try_next_u64(r)
    IN  IF drawn.res.ok
        THEN [ ret |-> drawn.res, rng |-> drawn.rng ]
        ELSE [ ret |-> Err("RandomGenerationFailed"), rng |-> drawn.rng ]

\* os is the OsRng the function constructs
generate_nonce(os, n) == secure_random_bytes(os, n)

generate_aes_gcm_nonce(os) == generate_nonce(os, NONCE_96_BIT_SIZE)

\* generate_extended_nonce drawing the 96-bit size
MutGenerateExtendedNonce(os) == generate_nonce(os, NONCE_96_BIT_SIZE)

generate_extended_nonce(os) == generate_nonce(os, NONCE_192_BIT_SIZE)

generate_random_u64(os) == secure_random_u64(os)

----------------------------------------------------------------------------
(* crypto/crypto_trait.rs: CryptoCipherTrait declares encrypt and decrypt   *)
(* and leaves them to the cipher variants.  The variant below is the        *)
(* reference variant of the cipher contract: the ciphertext is the          *)
(* encrypted body followed by a fixed-size tag over key, nonce, associated  *)
(* data and body, and decrypt verifies the tag before it releases anything. *)

KEY_SIZE == 4
NONCE_SIZE == NONCE_96_BIT_SIZE
TAG_SIZE == 4

\* bitwise exclusive or of two bytes
RECURSIVE Xor(_, _)
Xor(a, b) ==
    IF a = 0 THEN b
    ELSE IF b = 0 THEN a
    ELSE ((a + b) % 2) + 2 * Xor(a \div 2, b \div 2)

\* byte x with bit k (0..7) flipped
FlipBit(x, k) == Xor(x, Pow2(k))

\* sequence s with bit k of its i-th byte flipped
FlipBitAt(s, i, k) == [ s EXCEPT ![i] = FlipBit(@, k) ]

\* exclusive or of the bytes of s at the positions congruent to j modulo TAG_SIZE
RECURSIVE Lane(_, _, _)
Lane(s, j, i) ==
    IF i > Len(s) THEN 0
    ELSE Xor(IF i % TAG_SIZE = j % TAG_SIZE THEN s[i] ELSE 0, Lane(s, j, i + 1))

\* the keystream byte for position i
KeyStream(k, n, i) ==
    (k[((i - 1) % KEY_SIZE) + 1] + n[((i - 1) % NONCE_SIZE) + 1] + i) % 256

\* body <-> plaintext: exclusive or with the keystream
ApplyKeyStream(k, n, s) == [ i \in 1..Len(s) |-> Xor(s[i], KeyStream(k, n, i)) ]

\* Tag leaving the associated data out
MutTag(k, n, a, body) ==
    [ j \in 1..TAG_SIZE |->
        Xor(Xor(Lane(k, j, 1), Lane(n, j, 1)),
            Xor(Lane(body, j, 1), Len(body) % 256)) ]

\* the authentication tag over key, nonce, associated data and body
Tag(k, n, a, body) ==
    [ j \in 1..TAG_SIZE |->
        Xor(Xor(Lane(k, j, 1), Lane(n, j, 1)),
            Xor(Xor(Lane(a, j, 1), Lane(body, j, 1)),
                (Len(a) * j + Len(body)) % 256)) ]

\* CryptoCipherTrait::encrypt
encrypt(k, n, p, a) ==
    LET body == ApplyKeyStream(k, n, p)
    IN  Ok(body \o Tag(k, n, a, body))

\* decrypt releasing the body as it is, keystream still applied
MutDecrypt(k, n, c, a) ==
    IF Len(c) < TAG_SIZE THEN Err("InvalidLength")
    ELSE LET body == SubSeq(c, 1, Len(c) - TAG_SIZE)
             tag == SubSeq(c, Len(c) - TAG_SIZE + 1, Len(c))
         IN  IF tag # Tag(k, n, a, body) THEN Err("AuthenticationFailed")
             ELSE Ok(body)

\* CryptoCipherTrait::decrypt
decrypt(k, n, c, a) ==
    IF Len(c) < TAG_SIZE THEN Err("InvalidLength")
    ELSE LET body == SubSeq(c, 1, Len(c) - TAG_SIZE)
             tag == SubSeq(c, Len(c) - TAG_SIZE + 1, Len(c))
         IN  IF tag # Tag(k, n, a, body) THEN Err("AuthenticationFailed")
             ELSE Ok(ApplyKeyStream(k, n, body))

\* valid keys and nonces: exactly KEY_SIZE and NONCE_SIZE bytes
Keys == { [ i \in 1..KEY_SIZE |-> (i * 61 * s + 7 * s) % 256 ] : s \in 0..1 }
Nonces == { [ i \in 1..NONCE_SIZE |-> (i * 29 * s + 255 * s) % 256 ] : s \in 0..1 }

----------------------------------------------------------------------------
(* The caller                                                              *)

\* characters the caller's arbitrary strings are made of: alphabet
\* characters, the padding character, and characters outside the alphabet
TextChars == { "A", "Q", "R", "/", "w", "=", "!", "-" }

Init ==
    /\ op = "none"
    /\ data = <<>>
    /\ text = <<>>
    /\ encoder = Base64
    /\ inner = NoResult
    /\ rng = [ bytes_should_fail |-> FALSE, u64_should_fail |-> FALSE,
               test_value |-> 0, stream |-> 0, calls |-> 0 ]
    /\ byte_count = 0
    /\ kind = "none"
    /\ key = <<>>
    /\ nonce = <<>>
    /\ aad = <<>>
    /\ tampered = "no"
    /\ ct = <<>>
    /\ out_len = NoLength
    /\ ret = NoResult

\* encode_base64(d)
EncodeBase64 ==
    /\ op = "none"
    /\ \E d \in InputSlices :
         /\ data' = d
         /\ inner' = encode(Base64, d)
         /\ out_len' = encode_len(Base64, d)
         /\ ret' = encode_base64(d)
    /\ op' = "encode_base64"
    /\ UNCHANGED <<text, encoder, rng, byte_count, kind, key, nonce, aad, tampered, ct>>

\* decode_base64(s) on a string of the caller
DecodeBase64 ==
    /\ op = "none"
    /\ \E s \in SeqsUpTo(TextChars, MaxTextLen) :
         /\ text' = s
         /\ inner' = decode(Base64, s)
         /\ ret' = decode_base64(s)
    /\ op' = "decode_base64"
    /\ UNCHANGED <<data, encoder, rng, byte_count, kind, key, nonce, aad, tampered, ct, out_len>>

\* decode_base64(&encoded) on the string encode_base64 returned
DecodeEncoded ==
    /\ op = "encode_base64"
    /\ ret.ok
    /\ text' = ret.val
    /\ inner' = decode(Base64, ret.val)
    /\ ret' = decode_base64(ret.val)
    /\ op' = "decode_encoded"
    /\ UNCHANGED <<data, encoder, rng, byte_count, kind, key, nonce, aad, tampered, ct, out_len>>

\* encode_with(&e, d)
EncodeWith ==
    /\ op = "none"
    /\ \E e \in Encoders, d \in InputSlices :
         /\ encoder' = e
         /\ data' = d
         /\ inner' = encode(e, d)
         /\ out_len' = encode_len(e, d)
         /\ ret' = encode_with(e, d)
    /\ op' = "encode_with"
    /\ UNCHANGED <<text, rng, byte_count, kind, key, nonce, aad, tampered, ct>>

\* Base64.encode(d) on a slice of any length a slice can have
Base64Encode ==
    /\ op = "none"
    /\ \E n \in 0..ISIZE_MAX :
         /\ data' = ZeroBuffer(n)
         /\ out_len' = encode_len(Base64, ZeroBuffer(n))
         /\ ret' = encode(Base64, ZeroBuffer(n))
    /\ op' = "base64_encode"
    /\ UNCHANGED <<text, encoder, inner, rng, byte_count, kind, key, nonce, aad, tampered, ct>>

\* decode_with(&e, s)
DecodeWith ==
    /\ op = "none"
    /\ \E e \in Encoders, s \in SeqsUpTo(TextChars, MaxTextLen) :
         /\ encoder' = e
         /\ text' = s
         /\ inner' = decode(e, s)
         /\ ret' = decode_with(e, s)
    /\ op' = "decode_with"
    /\ UNCHANGED <<data, rng, byte_count, kind, key, nonce, aad, tampered, ct, out_len>>

\* secure_random_bytes(&mut r, n)
SecureRandomBytes ==
    /\ op = "none"
    /\ \E r \in RandomSources, n \in 0..MaxCount :
         /\ byte_count' = n
         /\ inner' = try_fill_bytes(r, ZeroBuffer(n)).res
         /\ rng' = secure_random_bytes(r, n).rng
         /\ ret' = secure_random_bytes(r, n).ret
    /\ op' = "secure_random_bytes"
    /\ UNCHANGED <<data, text, encoder, kind, key, nonce, aad, tampered, ct, out_len>>

\* secure_random_u64(&mut r)
SecureRandomU64 ==
    /\ op = "none"
    /\ \E r \in RandomSources :
         /\ inner' = try_next_u64(r).res
         /\ rng' = secure_random_u64(r).rng
         /\ ret' = secure_random_u64(r).ret
    /\ op' = "secure_random_u64"
    /\ UNCHANGED <<data, text, encoder, byte_count, kind, key, nonce, aad, tampered, ct, out_len>>

\* generate_aes_gcm_nonce()
GenerateAesGcmNonce ==
    /\ op = "none"
    /\ \E os \in OsRng :
         /\ inner' = try_fill_bytes(os, ZeroBuffer(NONCE_96_BIT_SIZE)).res
         /\ rng' = generate_aes_gcm_nonce(os).rng
         /\ ret' = generate_aes_gcm_nonce(os).ret
    /\ op' = "generate_aes_gcm_nonce"
    /\ UNCHANGED <<data, text, encoder, byte_count, kind, key, nonce, aad, tampered, ct, out_len>>

\* generate_extended_nonce()
GenerateExtendedNonce ==
    /\ op = "none"
    /\ \E os \in OsRng :
         /\ inner' = try_fill_bytes(os, ZeroBuffer(NONCE_192_BIT_SIZE)).res
         /\ rng' = generate_extended_nonce(os).rng
         /\ ret' = generate_extended_nonce(os).ret
    /\ op' = "generate_extended_nonce"
    /\ UNCHANGED <<data, text, encoder, byte_count, kind, key, nonce, aad, tampered, ct, out_len>>

\* generate_random_u64()
GenerateRandomU64 ==
    /\ op = "none"
    /\ \E os \in OsRng :
         /\ inner' = try_next_u64(os).res
         /\ rng' = generate_random_u64(os).rng
         /\ ret' = generate_random_u64(os).ret
    /\ op' = "generate_random_u64"
    /\ UNCHANGED <<data, text, encoder, byte_count, kind, key, nonce, aad, tampered, ct, out_len>>

\* e.to_string()
DisplayError ==
    /\ op = "none"
    /\ \E e \in NimbusError :
         /\ kind' = e
         /\ ret' = Ok(Display(e))
    /\ op' = "display"
    /\ UNCHANGED <<data, text, encoder, inner, rng, byte_count, key, nonce, aad, tampered, ct, out_len>>

\* encrypt(&k, &n, p, a); the caller keeps the ciphertext
Encrypt ==
    /\ op = "none"
    /\ \E k \in Keys, n \in Nonces,
          p \in SeqsUpTo(ByteVals, MaxPlainLen), a \in SeqsUpTo(ByteVals, MaxAadLen) :
         /\ key' = k
         /\ nonce' = n
         /\ data' = p
         /\ aad' = a
         /\ ret' = encrypt(k, n, p, a)
         /\ ct' = IF encrypt(k, n, p, a).ok THEN encrypt(k, n, p, a).val ELSE <<>>
    /\ op' = "encrypt"
    /\ UNCHANGED <<text, encoder, inner, rng, byte_count, kind, tampered, out_len>>

\* one bit of the ciphertext changes on the way
FlipCiphertextBit ==
    /\ op = "encrypt"
    /\ ret.ok
    /\ \E i \in 1..Len(ct), b \in 0..7 : ct' = FlipBitAt(ct, i, b)
    /\ tampered' = "ct"
    /\ op' = "tamper"
    /\ UNCHANGED <<data, text, encoder, inner, rng, byte_count, kind, key, nonce, aad, ret, out_len>>

\* one bit of the associated data changes on the way
FlipAadBit ==
    /\ op = "encrypt"
    /\ ret.ok
    /\ \E i \in 1..Len(aad), b \in 0..7 : aad' = FlipBitAt(aad, i, b)
    /\ tampered' = "aad"
    /\ op' = "tamper"
    /\ UNCHANGED <<data, text, encoder, inner, rng, byte_count, kind, key, nonce, ct, ret, out_len>>

\* decrypt(&k, &n, &ct, aad) on what the caller holds
Decrypt ==
    /\ op \in { "encrypt", "tamper" }
    /\ ret' = decrypt(key, nonce, ct, aad)
    /\ op' = "decrypt"
    /\ UNCHANGED <<data, text, encoder, inner, rng, byte_count, kind, key, nonce, aad, tampered, ct, out_len>>

Next ==
    \/ EncodeBase64
    \/ Base64Encode
    \/ DecodeBase64
    \/ DecodeEncoded
    \/ EncodeWith
    \/ DecodeWith
    \/ SecureRandomBytes
    \/ SecureRandomU64
    \/ GenerateAesGcmNonce
    \/ GenerateExtendedNonce
    \/ GenerateRandomU64
    \/ DisplayError
    \/ Encrypt
    \/ FlipCiphertextBit
    \/ FlipAadBit
    \/ Decrypt

Spec == Init /\ [][Next]_vars

----------------------------------------------------------------------------
(* Properties                                                              *)

\* C1: base64 round trip.  For every byte sequence no longer than
\* BASE64_MAX_INPUT_SIZE, encode_base64 succeeds and decoding what it returned
\* gives the bytes back; the empty sequence encodes to the empty string and the
\* empty string decodes to the empty sequence.
C1_Base64RoundTrip ==
    /\ (op = "encode_base64" /\ Len(data) <= BASE64_MAX_INPUT_SIZE) => ret.ok
    /\ (op = "encode_base64" /\ data = <<>>) => ret = Ok(<<>>)
    /\ op = "decode_encoded" => (ret.ok /\ ret.val = data)
    /\ (op = "decode_base64" /\ text = <<>>) => ret = Ok(<<>>)

\* a round trip of the longest accepted input, which ends in a padded block
C1_Witness ==
    /\ op = "decode_encoded"
    /\ Len(data) = BASE64_MAX_INPUT_SIZE
    /\ Len(text) = 12
    /\ text[12] = PAD
    /\ ret.ok /\ ret.val = data /\ 255 \in { data[i] : i \in 1..Len(data) }

\* C2: encode_base64 fails with InvalidLength when the input is longer than
\* BASE64_MAX_INPUT_SIZE and succeeds for every input at or below it.
C2_EncodeLengthGuard ==
    op = "encode_base64" =>
        IF Len(data) > BASE64_MAX_INPUT_SIZE
        THEN (~ret.ok /\ ret.err = "InvalidLength")
        ELSE ret.ok

\* the characters of the standard alphabet
AlphabetChars == { Alphabet[i] : i \in 1..64 }

\* s holds a character that is neither in the alphabet nor the padding character
HasForeignChar(s) == \E i \in 1..Len(s) : s[i] \notin AlphabetChars \cup { PAD }

\* s holds a padding character anywhere but in a run of at most two at its end
HasBadPadding(s) ==
    \E i \in 1..Len(s) :
        /\ s[i] = PAD
        /\ \/ i < Len(s) - 1
           \/ (i = Len(s) - 1 /\ s[Len(s)] # PAD)

\* the padded length of s is not a multiple of four
HasBadLength(s) == Len(s) % 4 # 0

\* C3: decode_base64 fails with InvalidInput, and with nothing else, on every
\* string that holds a character outside the alphabet, is padded incorrectly or
\* has an invalid padded length; such a failure carries no bytes.
C3_DecodeRejects ==
    (op = "decode_base64" /\ (HasForeignChar(text) \/ HasBadPadding(text) \/ HasBadLength(text)))
        => (~ret.ok /\ ret.err = "InvalidInput" /\ DOMAIN ret = { "ok", "err" })

\* a full block whose only defect is one character outside the alphabet
C3_Witness ==
    /\ op = "decode_base64"
    /\ text = << "Q", "Q", "A", "!" >>
    /\ ~ret.ok /\ ret.err = "InvalidInput"

\* C4: entropy failure is never degraded.  secure_random_bytes returns
\* RandomGenerationFailed exactly when the source's try_fill_bytes failed and
\* secure_random_u64 exactly when try_next_u64 failed; a failure carries no
\* bytes and no integer; on success the bytes are what the source left in the
\* buffer and the integer is the source's value, unchanged.
C4_EntropyFailureSurfaced ==
    /\ op = "secure_random_bytes" =>
        /\ (~inner.ok) <=> (~ret.ok)
        /\ ~ret.ok => (ret.err = "RandomGenerationFailed" /\ DOMAIN ret = { "ok", "err" })
        /\ ret.ok => ret.val =
               try_fill_bytes([ rng EXCEPT !.calls = 0 ], [ i \in 1..byte_count |-> 0 ]).dest
    /\ op = "secure_random_u64" =>
        /\ (~inner.ok) <=> (~ret.ok)
        /\ ~ret.ok => (ret.err = "RandomGenerationFailed" /\ DOMAIN ret = { "ok", "err" })
        /\ ret.ok => ret.val = rng.test_value

\* a source that fails after it wrote part of the buffer
C4_Witness ==
    /\ op = "secure_random_bytes"
    /\ rng.bytes_should_fail /\ rng.stream > 0
    /\ byte_count >= 2
    /\ ~inner.ok
    /\ ~ret.ok /\ ret.err = "RandomGenerationFailed"

\* C5: generated random material has exactly the requested size:
\* secure_random_bytes(rng, n) returns n bytes when it succeeds,
\* generate_aes_gcm_nonce 12 bytes and generate_extended_nonce 24 bytes.
C5_RequestedSize ==
    /\ (op = "secure_random_bytes" /\ ret.ok) => Len(ret.val) = byte_count
    /\ (op = "generate_aes_gcm_nonce" /\ ret.ok) => Len(ret.val) = 12
    /\ (op = "generate_extended_nonce" /\ ret.ok) => Len(ret.val) = 24

\* an extended nonce was generated
C5_Witness ==
    /\ op = "generate_extended_nonce"
    /\ ret.ok
    /\ Len(ret.val) = 24

\* C6: cipher round trip.  Decrypting, with the same key, nonce and associated
\* data, the ciphertext encrypt returned succeeds and gives the plaintext back.
C6_CipherRoundTrip ==
    (op = "decrypt" /\ tampered = "no") => (ret.ok /\ ret.val = data)

\* a round trip of a non-empty plaintext with non-empty associated data
C6_Witness ==
    /\ op = "decrypt"
    /\ tampered = "no"
    /\ Len(data) = MaxPlainLen
    /\ Len(aad) > 0
    /\ ret.ok /\ ret.val = data

\* C7: tamper detection.  Decrypting after one bit of the ciphertext or one bit
\* of the associated data was flipped fails with AuthenticationFailed and
\* releases no plaintext.
C7_TamperDetected ==
    (op = "decrypt" /\ tampered # "no") =>
        (~ret.ok /\ ret.err = "AuthenticationFailed" /\ DOMAIN ret = { "ok", "err" })

\* a decryption after a bit of the associated data was flipped
C7_Witness ==
    /\ op = "decrypt"
    /\ tampered = "aad"
    /\ Len(data) > 0
    /\ ~ret.ok /\ ret.err = "AuthenticationFailed"

\* the seven kinds the taxonomy is said to consist of
SevenKinds ==
    { "CryptographicFailure", "AuthenticationFailed", "KeyOperationFailed",
      "InvalidInput", "InvalidLength", "RandomGenerationFailed", "SystemError" }

\* C8 as stated: the error type has exactly the seven kinds, so every
\* NimbusError value the caller formats or receives is one of them.
C8_SevenKindsOnly ==
    /\ op = "display" => kind \in SevenKinds
    /\ (op # "none" /\ ~ret.ok) => ret.err \in SevenKinds

\* C8 as amended: the error type has exactly eight kinds, the seven and
\* WebAssemblyError; every NimbusError value the caller formats or receives
\* is one of the eight.
C8_EightKinds ==
    /\ NimbusError = SevenKinds \cup { "WebAssemblyError" }
    /\ Cardinality(NimbusError) = 8
    /\ op = "display" => kind \in SevenKinds \cup { "WebAssemblyError" }
    /\ (op # "none" /\ ~ret.ok) => ret.err \in SevenKinds \cup { "WebAssemblyError" }

\* the eighth kind exists and is formatted
C8_Witness ==
    /\ op = "display"
    /\ kind = "WebAssemblyError"
    /\ kind \notin SevenKinds
    /\ ret.ok

\* C9: the description of an error kind is the fixed string of the table
\* below, whatever else the caller did.
C9_Descriptions ==
    op = "display" =>
        /\ ret.ok
        /\ kind = "CryptographicFailure" => ret.val = "Cryptographic operation failed"
        /\ kind = "AuthenticationFailed" => ret.val = "Authentication verification failed"
        /\ kind = "KeyOperationFailed" => ret.val = "Key operation failed"
        /\ kind = "InvalidInput" => ret.val = "Invalid input provided"
        /\ kind = "InvalidLength" => ret.val = "Invalid data length"
        /\ kind = "RandomGenerationFailed" => ret.val = "Secure random generation failed"
        /\ kind = "SystemError" => ret.val = "System operation failed"
        /\ kind = "WebAssemblyError" => ret.val = "WebAssembly operation failed"

\* the last kind of the table was formatted
C9_Witness ==
    /\ op = "display"
    /\ kind = "WebAssemblyError"
    /\ ret = Ok("WebAssembly operation failed")

\* C10: encode_with and decode_with return InvalidInput for every failure of
\* the encoder, whatever kind the encoder reported, and hand a successful
\* result on unchanged.
C10_WrapperErrors ==
    op \in { "encode_with", "decode_with" } =>
        IF inner.ok THEN ret = inner
        ELSE (~ret.ok /\ ret.err = "InvalidInput")

\* an encoder that failed encode with InvalidLength
C10_Witness ==
    /\ op = "encode_with"
    /\ encoder.name = "MockEncoder"
    /\ ~inner.ok /\ inner.err = "InvalidLength"
    /\ ~ret.ok /\ ret.err = "InvalidInput"

\* C11: no retries.  Every call of secure_random_bytes, secure_random_u64,
\* generate_aes_gcm_nonce, generate_extended_nonce and generate_random_u64
\* invokes the entropy source exactly once; when that invocation failed the
\* call returned the failure, the source not having been invoked again.
C11_NoRetries ==
    op \in { "secure_random_bytes", "secure_random_u64", "generate_aes_gcm_nonce",
             "generate_extended_nonce", "generate_random_u64" } =>
        /\ rng.calls = 1
        /\ ~inner.ok => (~ret.ok /\ ret.err = "RandomGenerationFailed")

\* a nonce generation whose single draw from the source failed
C11_Witness ==
    /\ op = "generate_aes_gcm_nonce"
    /\ rng.bytes_should_fail
    /\ ~inner.ok
    /\ rng.calls = 1
    /\ ~ret.ok /\ ret.err = "RandomGenerationFailed"

\* C12: overflow guard.  With the guard at usize::MAX / 4, for every input
\* length n that Base64::encode accepts (n <= usize::MAX / 4) the output-length
\* calculation, n * 4 / 3 rounded up, stays within usize::MAX, its product
\* n * 4 included, and gives the length of the text returned; for every length
\* above the guard the call is rejected and no length was calculated.
C12_OverflowGuard ==
    op \in { "base64_encode", "encode_base64" } =>
        IF Len(data) <= USIZE_MAX \div 4
        THEN /\ out_len.attempted
             /\ out_len.product = Len(data) * 4
             /\ out_len.product <= USIZE_MAX
             /\ (Len(data) * 4 + 2) \div 3 <= USIZE_MAX
             /\ ~out_len.overflow
             /\ out_len.len <= USIZE_MAX
             /\ ret.ok /\ Len(ret.val) = out_len.len
        ELSE /\ ~out_len.attempted
             /\ ~ret.ok

\* the longest accepted slice was encoded, its length calculated
C12_Witness ==
    /\ op = "base64_encode"
    /\ Len(data) = USIZE_MAX \div 4
    /\ out_len.attempted
    /\ out_len.product > USIZE_MAX - 4
    /\ ret.ok

====
